---- MODULE Spec2Model ----
(***************************************************************************)
(* The content store of pistlar (app/content_loader.py) and the request    *)
(* handlers of app/app.py that read it and edit the files behind it.       *)
(*                                                                         *)
(* The posts directory is part of the state: whether it exists, and for    *)
(* every accepted file its modification time (whole seconds, as the        *)
(* fingerprint reads it) and its text, which gives its size and the date   *)
(* a parse of it yields.  A                                                *)
(* request is handled by a worker thread; ContentStore._load is split at   *)
(* the places where another thread, or another process writing the         *)
(* directory, can interleave: each read or write of self._fingerprint and  *)
(* self._posts, each directory listing and each file read is one step.     *)
(*                                                                         *)
(* The functions of the module that work on one value (the fingerprint of  *)
(* a tree, slugify, _to_aware_utc, the loop body of _load for one file,    *)
(* rendering, the image reference) are modelled on texts as sequences of   *)
(* characters and are called on their own under SpecFn.                    *)
(***************************************************************************)
EXTENDS Integers, Sequences, FiniteSets

\* ---------------------------------------------------------------- bounds
MaxClock == 1       \* the clock runs over the seconds 0..MaxClock
MaxContent == 2     \* the texts a file can hold, 1..MaxContent
MaxChanges == 1     \* changes of the directory in one run
MaxRequests == 2    \* requests handled in one run

Threads == {1, 2}                 \* worker threads of the web server
Paths == {"a.md", "b.md"}         \* accepted files the directory can hold
Ids == {"a"}                      \* identifiers a request can look up
Contents == 1..MaxContent

VARIABLES
  dirExists,     \* os.path.isdir(posts_dir)
  files,         \* path -> the file, or NoFile
  clock,         \* the current time in whole seconds
  _fingerprint,  \* ContentStore._fingerprint
  _posts,        \* ContentStore._posts
  postsBy,       \* thread -> self._posts was assigned by that thread's latest reload
  postsFp,       \* the new_fp of the reload that assigned self._posts
  pc,            \* thread -> where its request handler stands
  op,            \* thread -> the request it handles
  arg,           \* thread -> the slug of the request
  entry,         \* thread -> the cache pair when its read began
  new_fp,        \* thread -> local new_fp of _load
  posts,         \* thread -> local posts of _load
  todo,          \* thread -> files the running directory walk has still to yield
  result,        \* thread -> what the read returned to the handler
  prev,          \* how the last all_posts ended, while nothing happened since
  changes,       \* changes of the directory so far
  requests,      \* requests begun so far
  call           \* the last call of a function of the module on its own

vars == <<dirExists, files, clock, _fingerprint, _posts, postsBy, postsFp,
          pc, op, arg, entry, new_fp, posts, todo, result, prev,
          changes, requests, call>>

fsVars == <<dirExists, files, clock>>
storeVars == <<_fingerprint, _posts, postsBy, postsFp>>
localVars == <<new_fp, posts, todo>>
callVars == <<op, arg, entry, result>>
storeAll == <<fsVars, storeVars, pc, callVars, localVars, prev, changes, requests>>

\* ------------------------------------------------------------ the files
\* A file is its modification time and its text.  The texts carry a date
\* and no title and no slug.
NoFile == [there |-> FALSE, mtime |-> 0, content |-> 0]

File(m, c) == [there |-> TRUE, mtime |-> m, content |-> c]

\* st.st_size of a file with text c: texts 1 and 2 are equally long, and so
\* are 3 and 4, ...
Size(c) == (c + 1) \div 2

\* The date the metadata of text c gives (fm.get("date"), normalised).
Date(c) == c

\* _iter_post_files: the accepted files under the root; nothing when the
\* root is missing (os.walk swallows the error).
_iter_post_files == IF dirExists THEN {p \in Paths : files[p].there} ELSE {}

\* ---------------------------------------------------------- fingerprint
\* ContentStore.__init__: self._fingerprint = "", which no digest equals.
EmptyString == [sha |-> FALSE, items |-> {}]

\* hashlib.sha256 of the sorted, joined records: collision-free, and the
\* sort makes it a function of the set of records.
Sha256(items) == [sha |-> TRUE, items |-> items]

\* One record "<rel>:<int(mtime)>:<size>" per listed file that still
\* exists at the time of the stat; a vanished file is skipped.
_calc_fingerprint_for_dir(listed) ==
  Sha256({<<p, files[p].mtime, Size(files[p].content)>> :
            p \in {q \in listed : files[q].there}})

\* ContentStore._calc_fingerprint: the fingerprint of posts_dir as it is now.
_calc_fingerprint == _calc_fingerprint_for_dir(_iter_post_files)

\* ------------------------------------------------------------- the posts
\* _load, lines 127 and 135: without metadata the title is the file name
\* without its extension, and the slug is slugify(title).
FileSlug(p) == IF p = "a.md" THEN "a" ELSE "b"

\* What _load builds from one file: the fields the store's readers use.
Post(p) == [slug |-> FileSlug(p), date |-> Date(files[p].content), source_path |-> p]

RECURSIVE InsertDesc(_, _)
\* Where a stable descending sort puts x among the already sorted s:
\* behind every element whose date is not smaller.
InsertDesc(s, x) ==
  IF s = <<>> THEN <<x>>
  ELSE IF Head(s).date >= x.date THEN <<Head(s)>> \o InsertDesc(Tail(s), x)
  ELSE <<x>> \o s

\* The sort left out: the posts stay in the order the walk yielded them.
KeepOrder(s) == s

RECURSIVE SortByDateDesc(_)
\* posts.sort(key=lambda p: p.date, reverse=True): stable, newest first.
SortByDateDesc(s) ==
  IF s = <<>> THEN <<>>
  ELSE InsertDesc(SortByDateDesc(SubSeq(s, 1, Len(s) - 1)), s[Len(s)])

\* ------------------------------------------------------------------ Init
None == [slug |-> "", date |-> 0, source_path |-> ""]
NoResult == [kind |-> "none", list |-> <<>>, post |-> None]
NoEntry == [fp |-> EmptyString, posts |-> <<>>]
NoCall == [fn |-> "none"]

\* Construction (ContentStore.__init__) finds the directory in any state:
\* missing, empty, or holding files written in second 0.
Init ==
  /\ dirExists \in BOOLEAN
  /\ files \in [Paths -> {NoFile} \cup {File(0, c) : c \in Contents}]
  /\ ~dirExists => files = [p \in Paths |-> NoFile]
  /\ clock = 0
  /\ _fingerprint = EmptyString
  /\ _posts = <<>>
  /\ postsBy = [t \in Threads |-> FALSE]
  /\ postsFp = EmptyString
  /\ pc = [t \in Threads |-> "idle"]
  /\ op = [t \in Threads |-> "none"]
  /\ arg = [t \in Threads |-> ""]
  /\ entry = [t \in Threads |-> NoEntry]
  /\ new_fp = [t \in Threads |-> EmptyString]
  /\ posts = [t \in Threads |-> <<>>]
  /\ todo = [t \in Threads |-> {}]
  /\ result = [t \in Threads |-> NoResult]
  /\ prev = "none"
  /\ changes = 0
  /\ requests = 0
  /\ call = NoCall

\* ------------------------------------------------- writers of the directory
\* A file is created or rewritten by another process or by a handler
\* (scripts/fetch_from_github.py, new_post_form): its mtime is the current
\* second.
WriteFile(p, c) ==
  /\ changes < MaxChanges
  /\ dirExists
  /\ files' = [files EXCEPT ![p] = File(clock, c)]
  /\ changes' = changes + 1
  /\ prev' = "none"
  /\ UNCHANGED <<dirExists, clock, storeVars, pc, callVars, localVars, requests>>
  /\ UNCHANGED call

\* A file disappears (the case _calc_fingerprint_for_dir skips).
DeleteFile(p) ==
  /\ changes < MaxChanges
  /\ files[p].there
  /\ files' = [files EXCEPT ![p] = NoFile]
  /\ changes' = changes + 1
  /\ prev' = "none"
  /\ UNCHANGED <<dirExists, clock, storeVars, pc, callVars, localVars, requests>>
  /\ UNCHANGED call

\* The root disappears with everything under it (the case _load and
\* _iter_post_files answer with an empty collection).
RemoveDir ==
  /\ changes < MaxChanges
  /\ dirExists
  /\ dirExists' = FALSE
  /\ files' = [p \in Paths |-> NoFile]
  /\ changes' = changes + 1
  /\ prev' = "none"
  /\ UNCHANGED <<clock, storeVars, pc, callVars, localVars, requests>>
  /\ UNCHANGED call

\* posts_dir_path.mkdir(parents=True, exist_ok=True)
MakeDir ==
  /\ changes < MaxChanges
  /\ ~dirExists
  /\ dirExists' = TRUE
  /\ changes' = changes + 1
  /\ prev' = "none"
  /\ UNCHANGED <<files, clock, storeVars, pc, callVars, localVars, requests>>
  /\ UNCHANGED call

\* A second passes: int(st.st_mtime) of later writes is larger.
Tick ==
  /\ clock < MaxClock
  /\ clock' = clock + 1
  /\ UNCHANGED <<dirExists, files, storeVars, pc, callVars, localVars, prev,
                 changes, requests>>
  /\ UNCHANGED call

Env ==
  \/ \E p \in Paths, c \in Contents : WriteFile(p, c)
  \/ \E p \in Paths : DeleteFile(p)
  \/ RemoveDir
  \/ MakeDir
  \/ Tick

\* ------------------------------------------------------ a request handler
\* index (all_posts), post (by_slug) or the POST of edit_post (by_slug, then
\* the write and the invalidation) starts on an idle worker.
Begin(t, o, a) ==
  /\ requests < MaxRequests
  /\ pc[t] = "idle"
  /\ op' = [op EXCEPT ![t] = o]
  /\ arg' = [arg EXCEPT ![t] = a]
  /\ entry' = [entry EXCEPT ![t] = [fp |-> _fingerprint, posts |-> _posts]]
  /\ pc' = [pc EXCEPT ![t] = "calc_fp"]
  /\ requests' = requests + 1
  /\ UNCHANGED <<fsVars, storeVars, localVars, result, prev, changes>>
  /\ UNCHANGED call

\* _load, line 104: new_fp = self._calc_fingerprint().
CalcFingerprint(t) ==
  /\ pc[t] = "calc_fp"
  /\ new_fp' = [new_fp EXCEPT ![t] = _calc_fingerprint]
  /\ pc' = [pc EXCEPT ![t] = "check_fp"]
  /\ UNCHANGED <<fsVars, storeVars, callVars, posts, todo, prev, changes, requests>>
  /\ UNCHANGED call

\* The comparison never succeeds: every read reloads.
CheckFpNeverEqual(t) ==
  /\ pc[t] = "check_fp"
  /\ pc' = [pc EXCEPT ![t] = "new_list"]
  /\ UNCHANGED <<fsVars, storeVars, callVars, localVars, prev, changes, requests>>
  /\ UNCHANGED call

\* The comparison left out: only the emptiness of the cache is checked.
CheckFpSkipped(t) ==
  /\ pc[t] = "check_fp"
  /\ pc' = [pc EXCEPT ![t] = "check_posts"]
  /\ UNCHANGED <<fsVars, storeVars, callVars, localVars, prev, changes, requests>>
  /\ UNCHANGED call

\* _load, line 105, left operand: new_fp == self._fingerprint.
CheckFp(t) ==
  /\ pc[t] = "check_fp"
  /\ pc' = [pc EXCEPT ![t] = IF new_fp[t] = _fingerprint THEN "check_posts" ELSE "new_list"]
  /\ UNCHANGED <<fsVars, storeVars, callVars, localVars, prev, changes, requests>>
  /\ UNCHANGED call

\* The emptiness of the cache is not looked at: an equal fingerprint is
\* enough to return.
CheckPostsIgnored(t) ==
  /\ pc[t] = "check_posts"
  /\ pc' = [pc EXCEPT ![t] = "cached"]
  /\ new_fp' = [new_fp EXCEPT ![t] = EmptyString]
  /\ UNCHANGED <<fsVars, storeVars, callVars, posts, todo, prev, changes, requests>>
  /\ UNCHANGED call

\* _load, line 105, right operand: self._posts is non-empty; then return
\* (line 106), and the locals of _load are gone.
CheckPosts(t) ==
  /\ pc[t] = "check_posts"
  /\ IF _posts # <<>>
     THEN /\ pc' = [pc EXCEPT ![t] = "cached"]
          /\ new_fp' = [new_fp EXCEPT ![t] = EmptyString]
     ELSE /\ pc' = [pc EXCEPT ![t] = "new_list"]
          /\ new_fp' = new_fp
  /\ UNCHANGED <<fsVars, storeVars, callVars, posts, todo, prev, changes, requests>>
  /\ UNCHANGED call

\* The reload empties self._posts itself instead of starting a local list.
NewListClearsCache(t) ==
  /\ pc[t] = "new_list"
  /\ posts' = [posts EXCEPT ![t] = <<>>]
  /\ _posts' = <<>>
  /\ postsBy' = [u \in Threads |-> u = t]
  /\ pc' = [pc EXCEPT ![t] = IF dirExists THEN "scan" ELSE "clr_posts"]
  /\ UNCHANGED <<fsVars, _fingerprint, postsFp, callVars, new_fp, todo, prev,
                 changes, requests>>
  /\ UNCHANGED call

\* _load, lines 110-111: a new local list, then os.path.isdir.
NewList(t) ==
  /\ pc[t] = "new_list"
  /\ posts' = [posts EXCEPT ![t] = <<>>]
  /\ postsBy' = [postsBy EXCEPT ![t] = FALSE]
  /\ pc' = [pc EXCEPT ![t] = IF dirExists THEN "scan" ELSE "clr_posts"]
  /\ UNCHANGED <<fsVars, _fingerprint, _posts, postsFp, callVars, new_fp, todo, prev,
                 changes, requests>>
  /\ UNCHANGED call

\* _load, line 112: self._posts = [].
ClearPosts(t) ==
  /\ pc[t] = "clr_posts"
  /\ _posts' = <<>>
  /\ postsBy' = [u \in Threads |-> u = t]
  /\ postsFp' = new_fp[t]
  /\ pc' = [pc EXCEPT ![t] = "clr_fp"]
  /\ UNCHANGED <<fsVars, _fingerprint, callVars, localVars, prev, changes, requests>>
  /\ UNCHANGED call

\* The missing-root branch returns without recording the fingerprint.
ClearFpForgotten(t) ==
  /\ pc[t] = "clr_fp"
  /\ pc' = [pc EXCEPT ![t] = "loaded"]
  /\ new_fp' = [new_fp EXCEPT ![t] = EmptyString]
  /\ posts' = [posts EXCEPT ![t] = <<>>]
  /\ UNCHANGED <<fsVars, storeVars, callVars, todo, prev, changes, requests>>
  /\ UNCHANGED call

\* _load, lines 113-114: self._fingerprint = new_fp; return.
ClearFp(t) ==
  /\ pc[t] = "clr_fp"
  /\ _fingerprint' = new_fp[t]
  /\ pc' = [pc EXCEPT ![t] = "loaded"]
  /\ new_fp' = [new_fp EXCEPT ![t] = EmptyString]
  /\ posts' = [posts EXCEPT ![t] = <<>>]
  /\ UNCHANGED <<fsVars, _posts, postsBy, postsFp, callVars, todo, prev,
                 changes, requests>>
  /\ UNCHANGED call

\* _load, line 118: the loop's directory walk starts.
Scan(t) ==
  /\ pc[t] = "scan"
  /\ todo' = [todo EXCEPT ![t] = _iter_post_files]
  /\ pc' = [pc EXCEPT ![t] = "parse"]
  /\ UNCHANGED <<fsVars, storeVars, callVars, new_fp, posts, prev, changes, requests>>
  /\ UNCHANGED call

\* The loop appends to self._posts itself: every iteration publishes.
ParseFilePublishing(t) ==
  /\ pc[t] = "parse"
  /\ \E p \in todo[t], readable \in BOOLEAN :
       IF files[p].there /\ readable
       THEN /\ posts' = [posts EXCEPT ![t] = Append(@, Post(p))]
            /\ todo' = [todo EXCEPT ![t] = @ \ {p}]
            /\ _posts' = Append(posts[t], Post(p))
            /\ postsBy' = [u \in Threads |-> u = t]
            /\ pc' = pc
       ELSE /\ posts' = [posts EXCEPT ![t] = <<>>]
            /\ todo' = [todo EXCEPT ![t] = {}]
            /\ _posts' = _posts
            /\ postsBy' = postsBy
            /\ pc' = [pc EXCEPT ![t] = "raised"]
  /\ UNCHANGED <<fsVars, _fingerprint, postsFp, callVars, new_fp, prev, changes, requests>>
  /\ UNCHANGED call

\* _load, lines 118-176: one iteration of the loop.  The walk yields the
\* files in no particular order.  A file that is gone, or whose read
\* fails, raises out of _load (the except of line 122 only re-reads).
ParseFile(t) ==
  /\ pc[t] = "parse"
  /\ \E p \in todo[t], readable \in BOOLEAN :
       IF files[p].there /\ readable
       THEN /\ posts' = [posts EXCEPT ![t] = Append(@, Post(p))]
            /\ todo' = [todo EXCEPT ![t] = @ \ {p}]
            /\ pc' = pc
       ELSE /\ posts' = [posts EXCEPT ![t] = <<>>]
            /\ todo' = [todo EXCEPT ![t] = {}]
            /\ pc' = [pc EXCEPT ![t] = "raised"]
  /\ UNCHANGED <<fsVars, storeVars, callVars, new_fp, prev, changes, requests>>
  /\ UNCHANGED call

\* _load, lines 178-179: after the loop, sort the list in place and
\* self._posts = posts.
SortAndStore(t) ==
  /\ pc[t] = "parse"
  /\ todo[t] = {}
  /\ posts' = [posts EXCEPT ![t] = SortByDateDesc(@)]
  /\ _posts' = posts'[t]
  /\ postsBy' = [u \in Threads |-> u = t]
  /\ postsFp' = new_fp[t]
  /\ pc' = [pc EXCEPT ![t] = "set_fp"]
  /\ UNCHANGED <<fsVars, _fingerprint, callVars, new_fp, todo, prev, changes, requests>>
  /\ UNCHANGED call

\* _load, line 186: self._fingerprint = new_fp; _load returns.
SetFp(t) ==
  /\ pc[t] = "set_fp"
  /\ _fingerprint' = new_fp[t]
  /\ pc' = [pc EXCEPT ![t] = "loaded"]
  /\ new_fp' = [new_fp EXCEPT ![t] = EmptyString]
  /\ posts' = [posts EXCEPT ![t] = <<>>]
  /\ UNCHANGED <<fsVars, _posts, postsBy, postsFp, callVars, todo, prev,
                 changes, requests>>
  /\ UNCHANGED call

\* all_posts, line 191: return list(self._posts).
ReturnAll(t) ==
  /\ pc[t] \in {"cached", "loaded"}
  /\ op[t] = "all"
  /\ result' = [result EXCEPT ![t] = [kind |-> "list", list |-> _posts, post |-> None]]
  /\ pc' = [pc EXCEPT ![t] = "done"]
  /\ UNCHANGED <<fsVars, storeVars, op, arg, entry, localVars, prev, changes, requests>>
  /\ UNCHANGED call

\* The lookup compares the wrong field.
by_source_path(list, slug) ==
  LET hits == {i \in 1..Len(list) : list[i].source_path = slug}
  IN IF hits = {} THEN None
     ELSE list[CHOOSE i \in hits : \A j \in hits : i <= j]

\* by_slug, lines 195-198: the first post of self._posts with that slug.
by_slug(list, slug) ==
  LET hits == {i \in 1..Len(list) : list[i].slug = slug}
  IN IF hits = {} THEN None
     ELSE list[CHOOSE i \in hits : \A j \in hits : i <= j]

\* by_slug returns; edit_post (lines 219-221) goes on only with a post.
ReturnSlug(t) ==
  /\ pc[t] \in {"cached", "loaded"}
  /\ op[t] \in {"slug", "edit"}
  /\ LET found == by_slug(_posts, arg[t])
     IN /\ result' = [result EXCEPT ![t] = [kind |-> "post", list |-> <<>>, post |-> found]]
        /\ pc' = [pc EXCEPT ![t] =
                    IF op[t] = "edit" /\ found # None THEN "edit_write" ELSE "done"]
  /\ UNCHANGED <<fsVars, storeVars, op, arg, entry, localVars, prev, changes, requests>>
  /\ UNCHANGED call

\* edit_post, lines 223-303: the file behind the post is read and written
\* back with the form's content; a missing file raises.
EditWrite(t) ==
  /\ pc[t] = "edit_write"
  /\ changes < MaxChanges
  /\ LET p == result[t].post.source_path
     IN IF dirExists /\ files[p].there
        THEN /\ \E c \in Contents : files' = [files EXCEPT ![p] = File(clock, c)]
             /\ pc' = [pc EXCEPT ![t] = "edit_inval"]
        ELSE /\ files' = files
             /\ pc' = [pc EXCEPT ![t] = "raised"]
  /\ changes' = changes + 1
  /\ prev' = "none"
  /\ UNCHANGED <<dirExists, clock, storeVars, callVars, localVars, requests>>
  /\ UNCHANGED call

\* edit_post, line 305: store._fingerprint = "".
EditInvalidate(t) ==
  /\ pc[t] = "edit_inval"
  /\ _fingerprint' = EmptyString
  /\ pc' = [pc EXCEPT ![t] = "done"]
  /\ prev' = "none"
  /\ UNCHANGED <<fsVars, _posts, postsBy, postsFp, callVars, localVars, changes, requests>>
  /\ UNCHANGED call

\* The handler is through: the response leaves, the locals die.  An
\* all_posts that ran alone is remembered by how it ended.
Finish(t) ==
  /\ pc[t] \in {"done", "raised"}
  /\ prev' = IF op[t] = "all" /\ pc[t] = "done" /\ \A u \in Threads \ {t} : pc[u] = "idle"
             THEN (IF result[t].list = <<>> THEN "empty" ELSE "nonempty")
             ELSE "none"
  /\ pc' = [pc EXCEPT ![t] = "idle"]
  /\ op' = [op EXCEPT ![t] = "none"]
  /\ arg' = [arg EXCEPT ![t] = ""]
  /\ entry' = [entry EXCEPT ![t] = NoEntry]
  /\ result' = [result EXCEPT ![t] = NoResult]
  /\ new_fp' = [new_fp EXCEPT ![t] = EmptyString]
  /\ posts' = [posts EXCEPT ![t] = <<>>]
  /\ todo' = [todo EXCEPT ![t] = {}]
  /\ UNCHANGED <<fsVars, storeVars, changes, requests>>
  /\ UNCHANGED call

Step(t) ==
  \/ Begin(t, "all", "")
  \/ \E a \in Ids : Begin(t, "slug", a)
  \/ \E a \in Ids : Begin(t, "edit", a)
  \/ CalcFingerprint(t)
  \/ CheckFp(t)
  \/ CheckPosts(t)
  \/ NewList(t)
  \/ ClearPosts(t)
  \/ ClearFp(t)
  \/ Scan(t)
  \/ ParseFile(t)
  \/ SortAndStore(t)
  \/ SetFp(t)
  \/ ReturnAll(t)
  \/ ReturnSlug(t)
  \/ EditWrite(t)
  \/ EditInvalidate(t)
  \/ Finish(t)

\* Worker threads and writers of the directory, interleaved.
Next == (\E t \in Threads : Step(t)) \/ Env

Spec == Init /\ [][Next]_vars

\* One caller: a request is handled to its end before the next begins and
\* before the directory changes again.
NextSeq == Step(1) \/ (pc[1] = "idle" /\ Env)

SpecSeq == Init /\ [][NextSeq]_vars

\* The worker threads alone: the directory changes only by edit_post.
NextThreads == \E t \in Threads : Step(t)

SpecThreads == Init /\ [][NextThreads]_vars

\* ------------------------------------- the fingerprint, record by record
TicksPerSecond == 2   \* st.st_mtime is a float: the model counts half seconds
MaxMtime == 3         \* a file's st_mtime is one of 0..MaxMtime half seconds
MaxSize == 2          \* a file's st_size is one of 1..MaxSize

\* What os.stat gives for a path of the tree, or that there is no such file.
NoStat == [there |-> FALSE, st_mtime |-> 0, st_size |-> 0]

Stat(m, z) == [there |-> TRUE, st_mtime |-> m, st_size |-> z]

\* The directory trees a scan can meet.
Trees ==
  [Paths -> {NoStat} \cup {Stat(m, z) : m \in 0..MaxMtime, z \in 1..MaxSize}]

Listed(tree) == {p \in Paths : tree[p].there}

\* The orders in which os.walk can yield the accepted files of a tree.
Walks(tree) ==
  {o \in [1..Cardinality(Listed(tree)) -> Listed(tree)] :
     \A i, j \in DOMAIN o : o[i] = o[j] => i = j}

\* Line 83: f"{rel}:{int(st.st_mtime)}:{st.st_size}".
Item(p, st) == <<p, st.st_mtime \div TicksPerSecond, st.st_size>>

\* Lines 78-85: one record per file, in the order of the walk.
Items(tree, walk) == [i \in DOMAIN walk |-> Item(walk[i], tree[walk[i]])]

\* The order of two records as strings: by path first.
PathRank(p) == IF p = "a.md" THEN 1 ELSE 2

ItemLess(x, y) ==
  \/ PathRank(x[1]) < PathRank(y[1])
  \/ x[1] = y[1] /\ x[2] < y[2]
  \/ x[1] = y[1] /\ x[2] = y[2] /\ x[3] < y[3]

RECURSIVE InsertItem(_, _)
InsertItem(s, x) ==
  IF s = <<>> THEN <<x>>
  ELSE IF ItemLess(x, Head(s)) THEN <<x>> \o s
  ELSE <<Head(s)>> \o InsertItem(Tail(s), x)

\* The sort left out: the records are joined in the order of the walk.
ItemsAsWalked(s) == s

RECURSIVE SortItems(_)
\* Line 86: items.sort().
SortItems(s) ==
  IF s = <<>> THEN <<>>
  ELSE InsertItem(SortItems(SubSeq(s, 1, Len(s) - 1)), s[Len(s)])

\* Lines 77-87: the digest of the sorted records, joined.
FingerprintOfWalk(tree, walk) == Sha256(SortItems(Items(tree, walk)))

\* _calc_fingerprint_for_dir is called on a tree, and again on a tree that
\* is the same or another; each walk yields the files in some order.
CallFingerprint ==
  /\ call = NoCall
  /\ \E before \in Trees, after \in Trees :
       \E walk1 \in Walks(before), walk2 \in Walks(after) :
         call' = [fn |-> "fingerprint", before |-> before, walk1 |-> walk1,
                  after |-> after, walk2 |-> walk2,
                  fp1 |-> FingerprintOfWalk(before, walk1),
                  fp2 |-> FingerprintOfWalk(after, walk2)]
  /\ UNCHANGED storeAll

\* ----------------------------------------------------------------- text
\* A text is a sequence of characters, a character a one-letter string or,
\* outside ASCII, its name.
MaxLen == 3           \* the texts given to slugify have 0..MaxLen characters

Strings(alphabet, n) == UNION {[1..k -> alphabet] : k \in 0..n}

LowerSeq == <<"a", "b", "c", "d", "e", "f", "g", "h", "i", "j", "k", "l", "m",
              "n", "o", "p", "q", "r", "s", "t", "u", "v", "w", "x", "y", "z">>

UpperSeq == <<"A", "B", "C", "D", "E", "F", "G", "H", "I", "J", "K", "L", "M",
              "N", "O", "P", "Q", "R", "S", "T", "U", "V", "W", "X", "Y", "Z">>

DigitSeq == <<"0", "1", "2", "3", "4", "5", "6", "7", "8", "9">>

Lowercase == {LowerSeq[i] : i \in DOMAIN LowerSeq}
Uppercase == {UpperSeq[i] : i \in DOMAIN UpperSeq}
Digits == {DigitSeq[i] : i \in DOMAIN DigitSeq}

\* \s, and what str.strip() strips.
Whitespace == {" ", "tab", "newline"}

\* Characters outside ASCII: a letter with an accent and its combining
\* mark, a letter that has no decomposition, a no-break space.
NonAscii == {"e_acute", "combining_acute", "thorn", "nbsp"}

\* str.lower() of one character.
LowerChar(c) ==
  IF c \in Uppercase THEN LowerSeq[CHOOSE i \in DOMAIN UpperSeq : UpperSeq[i] = c]
  ELSE c

\* The lowercasing left out.
lower_left_out(s) == s

\* str.lower().
lower(s) == [i \in DOMAIN s |-> LowerChar(s[i])]

RECURSIVE Keep(_, _)
\* The characters of s that are in the set, in their order.
Keep(s, set) ==
  IF s = <<>> THEN <<>>
  ELSE (IF Head(s) \in set THEN <<Head(s)>> ELSE <<>>) \o Keep(Tail(s), set)

RECURSIVE lstrip(_, _)
lstrip(s, set) ==
  IF s # <<>> /\ Head(s) \in set THEN lstrip(Tail(s), set) ELSE s

RECURSIVE rstrip(_, _)
rstrip(s, set) ==
  IF s # <<>> /\ s[Len(s)] \in set THEN rstrip(SubSeq(s, 1, Len(s) - 1), set) ELSE s

\* str.strip().
strip(s) == rstrip(lstrip(s, Whitespace), Whitespace)

startswith(s, prefix) ==
  Len(s) >= Len(prefix) /\ SubSeq(s, 1, Len(prefix)) = prefix

\* unicodedata.normalize("NFKD", c) of one character.
NFKDChar(c) ==
  IF c = "e_acute" THEN <<"e", "combining_acute">>
  ELSE IF c = "nbsp" THEN <<" ">>
  ELSE <<c>>

RECURSIVE NFKD(_)
NFKD(s) == IF s = <<>> THEN <<>> ELSE NFKDChar(Head(s)) \o NFKD(Tail(s))

\* .encode("ascii", "ignore").decode("ascii"): what is not ASCII is dropped.
AsciiIgnore(s) == Keep(s, {s[i] : i \in DOMAIN s} \ NonAscii)

RECURSIVE CollapseRuns(_, _)
\* re.sub(r"[set]+", "-", s): every maximal run of characters of the set
\* becomes one hyphen.
CollapseRuns(s, set) ==
  IF s = <<>> THEN <<>>
  ELSE IF Head(s) \in set THEN <<"-">> \o CollapseRuns(lstrip(s, set), set)
  ELSE <<Head(s)>> \o CollapseRuns(Tail(s), set)

\* slugify, lines 14-18.
slugify(value) ==
  LET ascii == AsciiIgnore(NFKD(value))
      kept == Keep(ascii, Lowercase \cup Uppercase \cup Digits \cup {"-"} \cup Whitespace)
      low == lower(strip(kept))
  IN CollapseRuns(low, Whitespace \cup {"_"})

\* The characters of the texts slugify is called with.
SlugifyChars == {"a", "B", "1", "-", " ", "_", "!", "e_acute", "thorn", "nbsp"}

CallSlugify ==
  /\ call = NoCall
  /\ \E value \in Strings(SlugifyChars, MaxLen) :
       call' = [fn |-> "slugify", value |-> value, out |-> slugify(value)]
  /\ UNCHANGED storeAll

\* ---------------------------------------------------------------- dates
\* A datetime.datetime: the calendar fields, and the offset of its tzinfo
\* in minutes if it has one (aware), else it is naive.
DateTime(y, mo, d, h, mi, s, aware, off) ==
  [y |-> y, mo |-> mo, d |-> d, h |-> h, mi |-> mi, s |-> s,
   aware |-> aware, off |-> off]

\* What a call gives: a value, or the exception it raises.
Returns(v) == [ok |-> TRUE, v |-> v]
Raises(exc) == [ok |-> FALSE, exc |-> exc]

IsLeap(y) == (y % 4 = 0 /\ y % 100 # 0) \/ y % 400 = 0

DaysIn(y, mo) ==
  IF mo = 2 THEN (IF IsLeap(y) THEN 29 ELSE 28)
  ELSE IF mo \in {4, 6, 9, 11} THEN 30 ELSE 31

\* The dates datetime.date and datetime.datetime accept (MINYEAR..MAXYEAR).
ValidDate(y, mo, d) ==
  /\ y \in 1..9999
  /\ mo \in 1..12
  /\ d \in 1..DaysIn(y, mo)

\* datetime.datetime(y, mo, d, 12, 0, 0[, tzinfo=timezone.utc]).
NoonOf(y, mo, d, aware) ==
  IF ValidDate(y, mo, d)
  THEN Returns(DateTime(y, mo, d, 12, 0, 0, aware, 0))
  ELSE Raises("ValueError")

DigitVal(c) == (CHOOSE i \in DOMAIN DigitSeq : DigitSeq[i] = c) - 1

RECURSIVE ToInt(_)
\* int() of a text of digits.
ToInt(s) ==
  IF s = <<>> THEN 0
  ELSE 10 * ToInt(SubSeq(s, 1, Len(s) - 1)) + DigitVal(s[Len(s)])

AllDigits(s) == \A i \in DOMAIN s : s[i] \in Digits

\* (\d{4})-(\d{2})-(\d{2}) at the start of s.
DatePatternAt(s) ==
  /\ Len(s) >= 10
  /\ AllDigits(SubSeq(s, 1, 4)) /\ s[5] = "-"
  /\ AllDigits(SubSeq(s, 6, 7)) /\ s[8] = "-"
  /\ AllDigits(SubSeq(s, 9, 10))

Year(s) == ToInt(SubSeq(s, 1, 4))
Month(s) == ToInt(SubSeq(s, 6, 7))
Day(s) == ToInt(SubSeq(s, 9, 10))

RECURSIVE replace(_, _, _)
\* str.replace(old, new), old not empty.
replace(s, old, new) ==
  IF s = <<>> THEN <<>>
  ELSE IF startswith(s, old)
       THEN new \o replace(SubSeq(s, Len(old) + 1, Len(s)), old, new)
       ELSE <<Head(s)>> \o replace(Tail(s), old, new)

\* "HH:MM:SS" at the start of t, within the ranges of a time of day.
TimePatternAt(t) ==
  /\ Len(t) >= 8
  /\ AllDigits(SubSeq(t, 1, 2)) /\ t[3] = ":"
  /\ AllDigits(SubSeq(t, 4, 5)) /\ t[6] = ":"
  /\ AllDigits(SubSeq(t, 7, 8))
  /\ ToInt(SubSeq(t, 1, 2)) < 24
  /\ ToInt(SubSeq(t, 4, 5)) < 60
  /\ ToInt(SubSeq(t, 7, 8)) < 60

\* "+HH:MM" or "-HH:MM", the whole of z.
OffsetPattern(z) ==
  /\ Len(z) = 6
  /\ z[1] \in {"+", "-"}
  /\ AllDigits(SubSeq(z, 2, 3)) /\ z[4] = ":"
  /\ AllDigits(SubSeq(z, 5, 6))
  /\ ToInt(SubSeq(z, 2, 3)) < 24
  /\ ToInt(SubSeq(z, 5, 6)) < 60

OffsetMinutes(z) ==
  (IF z[1] = "-" THEN -1 ELSE 1) * (60 * ToInt(SubSeq(z, 2, 3)) + ToInt(SubSeq(z, 5, 6)))

\* datetime.datetime.fromisoformat on the forms YYYY-MM-DD,
\* YYYY-MM-DD?HH:MM:SS and YYYY-MM-DD?HH:MM:SS+HH:MM, which every version
\* of it accepts if the fields are in range; a date alone is midnight, naive.
\* Any other text of the inputs is rejected by every version.
fromisoformat(s) ==
  IF ~DatePatternAt(s) \/ ~ValidDate(Year(s), Month(s), Day(s))
  THEN Raises("ValueError")
  ELSE IF Len(s) = 10
  THEN Returns(DateTime(Year(s), Month(s), Day(s), 0, 0, 0, FALSE, 0))
  ELSE LET t == SubSeq(s, 12, Len(s))
           z == SubSeq(t, 9, Len(t))
           at(h, mi, sec, aware, off) ==
             Returns(DateTime(Year(s), Month(s), Day(s), h, mi, sec, aware, off))
       IN IF ~TimePatternAt(t) THEN Raises("ValueError")
          ELSE IF z = <<>>
          THEN at(ToInt(SubSeq(t, 1, 2)), ToInt(SubSeq(t, 4, 5)), ToInt(SubSeq(t, 7, 8)),
                  FALSE, 0)
          ELSE IF OffsetPattern(z)
          THEN at(ToInt(SubSeq(t, 1, 2)), ToInt(SubSeq(t, 4, 5)), ToInt(SubSeq(t, 7, 8)),
                  TRUE, OffsetMinutes(z))
          ELSE Raises("ValueError")

\* The day before and the day after; outside MINYEAR..MAXYEAR there is none.
DayBefore(dt) ==
  IF dt.d > 1 THEN [dt EXCEPT !.d = @ - 1]
  ELSE IF dt.mo > 1 THEN [dt EXCEPT !.mo = @ - 1, !.d = DaysIn(dt.y, dt.mo - 1)]
  ELSE [dt EXCEPT !.y = @ - 1, !.mo = 12, !.d = 31]

DayAfter(dt) ==
  IF dt.d < DaysIn(dt.y, dt.mo) THEN [dt EXCEPT !.d = @ + 1]
  ELSE IF dt.mo < 12 THEN [dt EXCEPT !.mo = @ + 1, !.d = 1]
  ELSE [dt EXCEPT !.y = @ + 1, !.mo = 1, !.d = 1]

\* dt.astimezone(timezone.utc) of an aware dt: the same instant, offset 0.
astimezone_utc(dt) ==
  LET minutes == 60 * dt.h + dt.mi - dt.off
      day == IF minutes < 0 THEN DayBefore(dt)
             ELSE IF minutes >= 1440 THEN DayAfter(dt) ELSE dt
      m == (minutes + 1440) % 1440
  IN IF day.y \notin 1..9999 THEN Raises("OverflowError")
     ELSE Returns([day EXCEPT !.h = m \div 60, !.mi = m % 60, !.off = 0])

\* Lines 36-40: a naive value is labelled UTC, an aware one is converted.
AsUtc(dt) ==
  IF ~dt.aware THEN Returns([dt EXCEPT !.aware = TRUE, !.off = 0])
  ELSE astimezone_utc(dt)

\* _to_aware_utc, lines 20-40.  dt is a datetime, a date, or anything
\* else, taken by its str(); now is what datetime.datetime.now() gives.
_to_aware_utc(dt, now) ==
  IF dt.type = "datetime" THEN AsUtc(dt.dt)
  ELSE IF dt.type = "date"
  THEN AsUtc(DateTime(dt.dt.y, dt.dt.mo, dt.dt.d, 12, 0, 0, FALSE, 0))
  ELSE LET s == replace(replace(strip(dt.text), <<"Z">>, <<"+", "0", "0", ":", "0", "0">>),
                        <<"+", "0", "0", "0", "0">>, <<"+", "0", "0", ":", "0", "0">>)
           iso == fromisoformat(s)
       IN IF iso.ok THEN AsUtc(iso.v)
          ELSE IF DatePatternAt(s) /\ Len(s) = 10
          THEN LET noon == NoonOf(Year(s), Month(s), Day(s), FALSE)
               IN IF noon.ok THEN AsUtc(noon.v) ELSE noon
          ELSE AsUtc(now)

\* _parse_date_from_filename, lines 55-60: None is <<>>.
_parse_date_from_filename(name) ==
  IF ~(DatePatternAt(name) /\ Len(name) >= 11 /\ name[11] = "-")
  THEN Returns(<<>>)
  ELSE LET noon == NoonOf(Year(name), Month(name), Day(name), TRUE)
       IN IF noon.ok THEN Returns(<<noon.v>>) ELSE noon

\* The values _to_aware_utc is called with.
TextOf(y, mo, d, rest) == y \o <<"-">> \o mo \o <<"-">> \o d \o rest

YearTexts == {<<"2", "0", "2", "4">>, <<"0", "0", "0", "0">>}
MonthTexts == {<<"0", "3">>, <<"1", "3">>, <<"0", "2">>}
DayTexts == {<<"0", "5">>, <<"3", "0">>}
TimeTexts ==
  { <<>>,
    <<" ">>,
    <<"T", "1", "0", ":", "3", "0", ":", "0", "0">>,
    <<"T", "1", "0", ":", "3", "0", ":", "0", "0", "Z">>,
    <<"T", "1", "0", ":", "3", "0", ":", "0", "0", "+", "0", "0", "0", "0">>,
    <<"T", "2", "3", ":", "3", "0", ":", "0", "0", "-", "0", "1", ":", "0", "0">> }

DateTexts ==
  {TextOf(y, mo, d, rest) :
     y \in YearTexts, mo \in MonthTexts, d \in DayTexts, rest \in TimeTexts}

\* A value is a text (anything that is taken by its str()), a
\* datetime.date or a datetime.datetime; the field that is not its own
\* is left blank.
AsText(s) == [type |-> "str", text |-> s, dt |-> DateTime(0, 0, 0, 0, 0, 0, FALSE, 0)]
AsDate(y, mo, d) == [type |-> "date", text |-> <<>>, dt |-> DateTime(y, mo, d, 0, 0, 0, FALSE, 0)]
AsDateTime(dt) == [type |-> "datetime", text |-> <<>>, dt |-> dt]

DateValues ==
  {AsText(s) : s \in DateTexts \cup {<<>>, <<"h", "i">>}}
  \cup {AsDate(2024, 3, 5), AsDate(2024, 2, 29)}
  \cup {AsDateTime(DateTime(2024, 3, 5, 10, 30, 0, FALSE, 0)),
        AsDateTime(DateTime(2024, 3, 5, 10, 30, 0, TRUE, 0)),
        AsDateTime(DateTime(2024, 3, 1, 0, 30, 0, TRUE, 120))}

\* What datetime.datetime.now() can give: a naive local time.
Nows == {DateTime(2025, 6, 1, 8, 15, 0, FALSE, 0),
         DateTime(2025, 12, 31, 23, 59, 59, FALSE, 0)}

CallToAwareUtc ==
  /\ call = NoCall
  /\ \E dt \in DateValues, now \in Nows :
       call' = [fn |-> "_to_aware_utc", dt |-> dt, now |-> now,
                out |-> _to_aware_utc(dt, now)]
  /\ UNCHANGED storeAll

\* ------------------------------------------------- one file of the loop
\* A value of the metadata that may be missing: <<>> (None) or <<value>>.
NoValue == <<>>
Some(x) == <<x>>

\* bool(x) of such a value whose value is a text.
Truthy(x) == x # NoValue /\ x[1] # <<>>

\* a or b.
Or(a, b) == IF Truthy(a) THEN a ELSE b

NoMetadata == [title |-> NoValue, slug |-> NoValue, date |-> NoValue]

\* The front-matter of a file is absent, malformed, or gives metadata.
FileText(front, metadata, body, readable) ==
  [front |-> front, metadata |-> metadata, body |-> body, readable |-> readable]

\* What fm holds after lines 120-125.  frontmatter.load gives the metadata
\* and the body behind the block; on a block it cannot parse it raises, and
\* the except branch reads the file again and takes all of it as content.
\* A file that cannot be read raises in both.
LoadFrontmatter(file) ==
  IF ~file.readable THEN Raises("OSError")
  ELSE IF file.front = "ok"
  THEN Returns([metadata |-> file.metadata, content |-> <<file.body>>])
  ELSE IF file.front = "malformed"
  THEN Returns([metadata |-> NoMetadata, content |-> <<"malformed block", file.body>>])
  ELSE Returns([metadata |-> NoMetadata, content |-> <<file.body>>])

\* os.path.splitext(fname)[0]: up to the last dot that has something other
\* than dots before it.
splitext(fname) ==
  LET dots == {i \in DOMAIN fname :
                 fname[i] = "." /\ \E j \in 1..(i - 1) : fname[j] # "."}
  IN IF dots = {} THEN fname
     ELSE SubSeq(fname, 1, (CHOOSE i \in dots : \A j \in dots : j <= i) - 1)

\* Lines 127-135: title, date and slug of one file.
Fields(fname, fm, now) ==
  LET title == Or(fm.metadata.title, Some(splitext(fname)))[1]
      dval == fm.metadata.date
      fromName == _parse_date_from_filename(fname)
      date == IF dval # NoValue THEN _to_aware_utc(dval[1], now)
              ELSE IF ~fromName.ok THEN fromName
              ELSE IF fromName.v # NoValue THEN Returns(fromName.v[1])
              ELSE _to_aware_utc(AsDateTime(now), now)
      slug == Or(fm.metadata.slug, Some(slugify(title)))[1]
  IN IF ~date.ok THEN date
     ELSE Returns([title |-> title, date |-> date.v, slug |-> slug,
                   metadata |-> fm.metadata, content |-> fm.content])

\* Lines 119-135 for one file of the walk.
LoopBody(fname, file, now) ==
  LET fm == LoadFrontmatter(file)
  IN IF ~fm.ok THEN fm ELSE Fields(fname, fm.v, now)

\* The files the loop is given.
DatePrefixes ==
  { <<>>,
    <<"2", "0", "2", "3", "-", "0", "1", "-", "0", "2", "-">>,
    <<"2", "0", "2", "3", "-", "0", "2", "-", "3", "0", "-">> }

NameChars == {"a", "-", "!"}

FileNames ==
  {prefix \o rest \o <<".", "m", "d">> :
     prefix \in DatePrefixes, rest \in Strings(NameChars, MaxLen)}

Metadatas ==
  [title : {NoValue, Some(<<>>), Some(<<"!">>), Some(<<"A", " ", "b">>)},
   slug : {NoValue, Some(<<>>), Some(<<"s">>)},
   date : {NoValue, Some(AsDate(2024, 3, 5)),
           Some(AsText(<<"2", "0", "2", "4", "-", "0", "3", "-", "0", "5">>)),
           Some(AsText(<<"2", "0", "2", "4", "-", "1", "3", "-", "0", "5">>))}]

Bodies == {"text"}

FileTexts ==
  {FileText("ok", m, b, TRUE) : m \in Metadatas, b \in Bodies}
  \cup {FileText(front, NoMetadata, b, readable) :
          front \in {"absent", "malformed"}, b \in Bodies, readable \in BOOLEAN}

CallLoopBody ==
  /\ call = NoCall
  /\ \E fname \in FileNames, file \in FileTexts :
       LET now == CHOOSE n \in Nows : TRUE
       IN call' = [fn |-> "loop", fname |-> fname, file |-> file, now |-> now,
                   out |-> LoopBody(fname, file, now)]
  /\ UNCHANGED storeAll

\* ------------------------------------------------------------ rendering
\* HTML is a sequence of nodes: an opening or closing tag, text, or text
\* that is the escaped source of a tag (&lt;name&gt;).
MaxBlocks == 2        \* a body has 0..MaxBlocks blocks

OpenTag(name) == [kind |-> "open", name |-> name]
CloseTag(name) == [kind |-> "close", name |-> name]
Text == [kind |-> "text", name |-> ""]
Escaped(node) == [kind |-> "escaped " \o node.kind, name |-> node.name]

\* Lines 7-8: the defaults of bleach and the tags added to them.
ALLOWED_TAGS ==
  {"a", "abbr", "acronym", "b", "blockquote", "code", "em", "i", "li", "ol",
   "strong", "ul"}
  \cup {"p", "img", "h1", "h2", "h3", "h4", "h5", "h6", "figure", "figcaption",
        "pre", "code", "blockquote"}

\* A block of a markdown body: a paragraph of text, or raw HTML that the
\* author wrote (an element with that tag around some text).
Blocks == {"paragraph", "script", "pre", "iframe"}

\* md.convert of one block: a paragraph is wrapped in <p>, raw HTML is
\* passed on as it is.
ConvertBlock(b) ==
  IF b = "paragraph" THEN <<OpenTag("p"), Text, CloseTag("p")>>
  ELSE <<OpenTag(b), Text, CloseTag(b)>>

RECURSIVE convert(_)
\* md.reset().convert(fm.content), line 168.
convert(body) ==
  IF body = <<>> THEN <<>> ELSE ConvertBlock(Head(body)) \o convert(Tail(body))

RECURSIVE clean(_, _, _)
\* bleach.clean(html, tags=..., strip=...): a tag outside the list is
\* removed if strip is set, and escaped into text if it is not; what is
\* between the tags stays.
clean(html, tags, strip_) ==
  IF html = <<>> THEN <<>>
  ELSE LET node == Head(html)
           rest == clean(Tail(html), tags, strip_)
       IN IF node.kind = "text" \/ node.name \in tags THEN <<node>> \o rest
          ELSE IF strip_ THEN rest
          ELSE <<Escaped(node)>> \o rest

\* _first_paragraph_html, lines 62-64: from the first "<p" to the first
\* "</p>" behind it; without such a match, up to the first "</p>" if there
\* is one, else everything.
_first_paragraph_html(rendered) ==
  LET opens == {i \in DOMAIN rendered :
                  rendered[i].kind = "open" /\ rendered[i].name \in {"p", "pre"}}
      closes == {i \in DOMAIN rendered : rendered[i] = CloseTag("p")}
      matches == {i \in opens : \E j \in closes : j > i}
      first(set) == CHOOSE i \in set : \A j \in set : i <= j
  IN IF matches # {}
     THEN SubSeq(rendered, first(matches), first({j \in closes : j > first(matches)}))
     ELSE IF closes # {} THEN SubSeq(rendered, 1, first(closes))
     ELSE rendered

\* Lines 168-170: html and summary_html of a body.
Render(body) ==
  LET html == clean(convert(body), ALLOWED_TAGS, FALSE)
  IN [html |-> html, summary_html |-> _first_paragraph_html(html)]

CallRender ==
  /\ call = NoCall
  /\ \E body \in Strings(Blocks, MaxBlocks) :
       call' = [fn |-> "render", body |-> body, out |-> Render(body)]
  /\ UNCHANGED storeAll

\* ---------------------------------------------------------------- image
HTTP == <<"h", "t", "t", "p", ":", "/", "/">>
HTTPS == <<"h", "t", "t", "p", "s", ":", "/", "/">>
DATA == <<"d", "a", "t", "a", ":">>
ASSETS == <<"a", "s", "s", "e", "t", "s", "/">>
IMG == <<"i", "m", "g", "/">>
IMAGES == <<"i", "m", "a", "g", "e", "s", "/">>
IMG_POSTS == <<"/", "i", "m", "g", "/", "p", "o", "s", "t", "s", "/">>

\* Every relative reference is put into the bucket of the posts.
_normalize_image_bucket_only(image_str, assets_url_prefix) ==
  LET s0 == strip(image_str)
      s1 == IF startswith(s0, <<":">>) THEN Tail(s0) ELSE s0
      s == lstrip(s1, {"/"})
  IN IF startswith(s1, HTTP) \/ startswith(s1, HTTPS) \/ startswith(s1, DATA) THEN s1
     ELSE assets_url_prefix \o IMG_POSTS \o s

\* _normalize_image, lines 140-163.
_normalize_image(image_str, assets_url_prefix) ==
  LET s0 == strip(image_str)
      s1 == IF startswith(s0, <<":">>) THEN Tail(s0) ELSE s0
      s == lstrip(s1, {"/"})
  IN IF startswith(s1, HTTP) \/ startswith(s1, HTTPS) \/ startswith(s1, DATA) THEN s1
     ELSE IF startswith(s, ASSETS) THEN <<"/">> \o s
     ELSE IF startswith(s, IMG) \/ startswith(s, IMAGES)
          THEN assets_url_prefix \o <<"/">> \o s
     ELSE assets_url_prefix \o IMG_POSTS \o s

\* Lines 138 and 165-166: the first of the four keys with a value that
\* counts as true, normalized; without one, what the last "or" leaves.
Image(metadata, assets_url_prefix) ==
  LET image == Or(Or(Or(metadata.image, metadata.img), metadata.cover), metadata.thumbnail)
  IN IF Truthy(image) THEN Some(_normalize_image(image[1], assets_url_prefix))
     ELSE image

\* The references an author writes: white space, the ":" shorthand and a
\* slash may lead; then a scheme or a folder or neither; then a file name.
FileRef == <<"c", ".", "p">>

Refs ==
  {space \o colon \o slash \o head \o name :
     space \in {<<>>, <<" ">>}, colon \in {<<>>, <<":">>}, slash \in {<<>>, <<"/">>},
     head \in {<<>>, HTTP, HTTPS, DATA, ASSETS, IMG, IMAGES},
     name \in {<<>>, FileRef}}

ImageMetadatas ==
  [image : {NoValue} \cup {Some(ref) : ref \in Refs},
   img : {NoValue, Some(<<>>), Some(IMG \o FileRef)},
   cover : {NoValue, Some(<<>>), Some(HTTPS \o FileRef)},
   thumbnail : {NoValue, Some(<<>>), Some(<<"t">>)}]

\* ContentStore.__init__: assets_url_prefix, "/assets" unless given.
AssetPrefixes == {<<"/", "a", "s", "s", "e", "t", "s">>, <<"/", "s">>}

CallImage ==
  /\ call = NoCall
  /\ \E metadata \in ImageMetadatas, prefix \in AssetPrefixes :
       call' = [fn |-> "image", metadata |-> metadata, prefix |-> prefix,
                out |-> Image(metadata, prefix)]
  /\ UNCHANGED storeAll

\* -------------------------------------------------------- the directory walk
\* A tree under the root is the set of its files, a file the names of the
\* directories that lead to it and then its own name.  The directories are
\* the ones that hold a file.
MaxDepth == 2         \* a file lies 0..MaxDepth directories below the root
MaxFiles == 2         \* a tree holds 0..MaxFiles files

\* Line 12.
POST_EXTS ==
  { <<".", "m", "d">>,
    <<".", "m", "a", "r", "k", "d", "o", "w", "n">>,
    <<".", "m", "d", "o", "w", "n">>,
    <<".", "m", "k", "d", "n">> }

endswith(s, suffix) ==
  Len(s) >= Len(suffix) /\ SubSeq(s, Len(s) - Len(suffix) + 1, Len(s)) = suffix

\* The names of directories and of files a tree is made of: a plain and a
\* hidden directory; accepted names in both cases, a hidden file, a name
\* with another extension.
DirNames == {<<"d">>, <<".", "h">>}

WalkFileNames ==
  { <<"a", ".", "m", "d">>,
    <<"A", ".", "M", "K", "D", "N">>,
    <<".", "m", "d">>,
    <<"a", ".", "t", "x", "t">> }

FilePaths ==
  {dir \o <<fname>> : dir \in Strings(DirNames, MaxDepth), fname \in WalkFileNames}

WalkTrees ==
  {{}} \cup {{f[i] : i \in DOMAIN f} : f \in [1..MaxFiles -> FilePaths]}

\* The directory a file lies in, and its name.
DirOf(path) == SubSeq(path, 1, Len(path) - 1)
NameOf(path) == path[Len(path)]

\* What os.walk reports for the directory at: files, and dirs.
FilesAt(tree, at) == {path \in tree : DirOf(path) = at}

DirsAt(tree, at) ==
  {path[Len(at) + 1] : path \in {q \in tree : Len(DirOf(q)) > Len(at)
                                             /\ SubSeq(q, 1, Len(at)) = at}}

\* Line 70 left out: the walk goes down into every directory.
Unpruned(dirs) == dirs

\* Line 70: dirs[:] = [d for d in dirs if not d.startswith(".")].
Pruned(dirs) == {d \in dirs : ~startswith(d, <<".">>)}

RECURSIVE Walk(_, _)
\* Lines 69-73 from the directory at on: the files yielded, and the
\* directories the walk has been in.
Walk(tree, at) ==
  LET here == {path \in FilesAt(tree, at) :
                 \E ext \in POST_EXTS : endswith(lower(NameOf(path)), ext)}
      below == {Walk(tree, at \o <<d>>) : d \in Pruned(DirsAt(tree, at))}
  IN [yielded |-> here \cup UNION {w.yielded : w \in below},
      visited |-> {at} \cup UNION {w.visited : w \in below}]

\* _iter_post_files(posts_dir), lines 67-75: os.walk of a missing root
\* reports nothing.
IterPostFiles(exists, tree) ==
  IF exists THEN Walk(tree, <<>>) ELSE [yielded |-> {}, visited |-> {}]

CallIterPostFiles ==
  /\ call = NoCall
  /\ \E exists \in BOOLEAN, tree \in WalkTrees :
       /\ ~exists => tree = {}
       /\ call' = [fn |-> "_iter_post_files", exists |-> exists, tree |-> tree,
                   out |-> IterPostFiles(exists, tree)]
  /\ UNCHANGED storeAll

\* Every function of the module is called on its own, with any input.
NextFn ==
  \/ CallFingerprint
  \/ CallSlugify
  \/ CallToAwareUtc
  \/ CallLoopBody
  \/ CallRender
  \/ CallImage
  \/ CallIterPostFiles

\* The store as constructed, the posts directory missing.
InitFn == Init /\ ~dirExists

SpecFn == InitFn /\ [][NextFn]_vars

\* ------------------------------------------------------------- the claims
\* The steps of _load behind the check of line 105: a reload.
ReloadPcs == {"new_list", "clr_posts", "clr_fp", "scan", "parse", "set_fp"}

\* The scan-parse-replace section of a reload (lines 118-186).
ScanPcs == {"scan", "parse", "set_fp"}

\* A read has come back from _load and is about to return.
ReturnPcs == {"cached", "loaded"}

\* The documents a parse of the directory as it is now produces.
FreshDocs == {Post(p) : p \in _iter_post_files}

DocSet(list) == {list[i] : i \in 1..Len(list)}

IsDateDescending(list) == \A i \in 1..Len(list) - 1 : list[i].date >= list[i + 1].date

\* C1 as stated: after an all_posts that returned (an empty or a non-empty
\* list) and with no change of the directory since, the next all_posts does
\* not scan and parse again.
C1_SecondCallNeverScans ==
  prev \in {"empty", "nonempty"} => \A t \in Threads : op[t] = "all" => pc[t] \notin ScanPcs

\* C1, amended: after an all_posts that returned a non-empty list and with
\* no change of the directory since, the next all_posts is served from the
\* cache: it never gets past the check of line 105.
C1_SecondCallCached ==
  prev = "nonempty" => \A t \in Threads : op[t] = "all" => pc[t] \notin ReloadPcs

C1_Witness == prev = "nonempty" /\ op[1] = "all" /\ pc[1] = "cached"

\* C2: a read that begins with the fingerprint reset to "" reloads, and what
\* it returns is a parse of every file of the directory, also when the
\* directory's fingerprint equals the one cached before the reset.
C2_InvalidateForcesReload ==
  \A t \in Threads :
    (op[t] = "all" /\ entry[t].fp = EmptyString /\ pc[t] \in ReturnPcs)
      => /\ pc[t] = "loaded"
         /\ DocSet(_posts) = FreshDocs
         /\ Len(_posts) = Cardinality(FreshDocs)

\* An all_posts after edit_post's reset is past the check although the
\* directory's fingerprint is the one the cached posts were loaded under.
C2_Witness ==
  /\ op[1] = "all" /\ pc[1] = "parse" /\ posts[1] # <<>>
  /\ _fingerprint = EmptyString /\ _posts # <<>>
  /\ new_fp[1] = postsFp

\* C3 as stated: whatever a read returns is what a parse of the directory
\* at that time produces.
C3_NeverStale ==
  \A t \in Threads : pc[t] \in ReturnPcs => DocSet(_posts) = FreshDocs

\* C4: when a reload raises on a file read, the cache pair is what it was
\* when the read began.
C4_FailedReloadKeepsCache ==
  \A t \in Threads :
    (pc[t] = "raised" /\ result[t].kind = "none")
      => _fingerprint = entry[t].fp /\ _posts = entry[t].posts

C4_Witness ==
  /\ pc[1] = "raised" /\ result[1].kind = "none"
  /\ entry[1].posts # <<>> /\ entry[1].fp # EmptyString

\* C5: the collection the store holds is never the list a reload is still
\* filling, so a reader gets a complete collection.
C5_NoPartialCollection ==
  \A t \in Threads : postsBy[t] => pc[t] \notin {"scan", "parse"}

\* A reader has returned a collection while another thread's reload had
\* parsed one of two files.
C5_Witness ==
  \E t, u \in Threads :
    /\ t # u
    /\ pc[t] = "parse" /\ Len(posts[t]) = 1 /\ todo[t] # {}
    /\ pc[u] = "done" /\ result[u].kind = "list" /\ Len(result[u].list) = 2

\* C6 as stated: no two threads are in the scan-parse-replace section of a
\* reload at the same time.
C6_OneReloadAtATime ==
  Cardinality({t \in Threads : pc[t] \in ScanPcs}) <= 1

\* C7 as stated: the cached fingerprint is the one computed by the reload
\* that produced the cached collection.
C7_PairFromOneReload ==
  _fingerprint # EmptyString => _fingerprint = postsFp

\* C8: the cached collection, and every list all_posts returns, is ordered
\* by date, newest first.
C8_DateDescending ==
  /\ IsDateDescending(_posts)
  /\ \A t \in Threads : IsDateDescending(result[t].list)

\* all_posts has returned two posts of different dates.
C8_Witness ==
  /\ pc[1] = "done" /\ result[1].kind = "list" /\ Len(result[1].list) = 2
  /\ result[1].list[1].date > result[1].list[2].date

\* C9: with the root missing or holding no accepted file, all_posts does
\* not raise, returns the empty list, and leaves the directory's
\* fingerprint in the cache.
C9_EmptyDirectory ==
  \A t \in Threads :
    (op[t] = "all" /\ _iter_post_files = {})
      => /\ pc[t] # "raised"
         /\ pc[t] \in {"cached", "loaded", "done"} =>
              _posts = <<>> /\ _fingerprint = _calc_fingerprint
         /\ pc[t] = "done" => result[t].list = <<>>

C9_Witness ==
  /\ op[1] = "all" /\ pc[1] = "done" /\ result[1].kind = "list"
  /\ ~dirExists /\ _fingerprint = _calc_fingerprint

\* C10: by_slug returns after the reload check (the cached fingerprint is
\* the directory's), and what it returns is a post of the collection with
\* that slug if there is one, and None otherwise.
C10_BySlug ==
  \A t \in Threads :
    (pc[t] = "done" /\ op[t] = "slug")
      => /\ _fingerprint = _calc_fingerprint
         /\ IF \E i \in 1..Len(_posts) : _posts[i].slug = arg[t]
            THEN result[t].post \in DocSet(_posts) /\ result[t].post.slug = arg[t]
            ELSE result[t].post = None

\* A lookup that reloaded and found its post.
C10_Witness ==
  /\ pc[1] = "done" /\ op[1] = "slug" /\ result[1].post # None
  /\ entry[1].fp # _fingerprint

\* What a fingerprint can tell of a tree: which files there are, and the
\* whole seconds of the mtime and the size of each.
Seen(tree) == [p \in Paths |-> Item(p, tree[p])]

\* C11 as stated: two scans of the same tree give the same fingerprint in
\* whatever order the files are enumerated, and the fingerprint differs
\* after any change of a file's modification time, size or presence.
C11_FingerprintTellsEveryChange ==
  call.fn = "fingerprint" => (call.fp1 = call.fp2 <=> call.before = call.after)

\* C11, amended: the fingerprints of two scans are equal exactly if the
\* trees hold the same files with the same sizes and the same modification
\* times in whole seconds, in whatever order the files are enumerated.
C11_FingerprintTellsSeenChange ==
  call.fn = "fingerprint" =>
    (call.fp1 = call.fp2 <=> Seen(call.before) = Seen(call.after))

\* Two files enumerated in two orders; one of them is a second older in the
\* second scan, and the fingerprints differ.
C11_Witness ==
  /\ call.fn = "fingerprint"
  /\ Len(call.walk1) = 2 /\ call.walk1 # call.walk2
  /\ \E p \in Paths :
       /\ call.after = [call.before EXCEPT ![p].st_mtime = @ + TicksPerSecond]
       /\ call.before[p].there
  /\ call.fp1 # call.fp2

\* C12 as stated: every Document the loop builds has a non-empty slug.
C12_SlugNeverEmpty ==
  (call.fn = "loop" /\ call.out.ok) => call.out.v.slug # <<>>

\* C13 as stated: _to_aware_utc raises for no value, and what it returns is
\* aware and in UTC.
C13_NeverRaises ==
  call.fn = "_to_aware_utc" =>
    call.out.ok /\ call.out.v.aware /\ call.out.v.off = 0

\* A date alone: a datetime.date, or the text YYYY-MM-DD of a day of the
\* calendar.
IsDateOnly(dt) ==
  \/ dt.type = "date"
  \/ /\ dt.type = "str"
     /\ Len(dt.text) = 10
     /\ DatePatternAt(dt.text)
     /\ ValidDate(Year(dt.text), Month(dt.text), Day(dt.text))

NoonUtcOf(dt) ==
  IF dt.type = "date" THEN DateTime(dt.dt.y, dt.dt.mo, dt.dt.d, 12, 0, 0, TRUE, 0)
  ELSE DateTime(Year(dt.text), Month(dt.text), Day(dt.text), 12, 0, 0, TRUE, 0)

\* C14 as stated: a date alone, as an object or as text, normalizes to noon
\* UTC of that day.
C14_DateOnlyIsNoon ==
  (call.fn = "_to_aware_utc" /\ IsDateOnly(call.dt)) =>
    call.out = Returns(NoonUtcOf(call.dt))

\* The name is YYYY-MM-DD-<rest>.<ext>, the date a day of the calendar and
\* <rest> an identifier as it stands.
IsDatedName(fname) ==
  LET stem == splitext(fname)
      rest == SubSeq(stem, 12, Len(stem))
  IN /\ DatePatternAt(fname) /\ Len(stem) > 11 /\ fname[11] = "-"
     /\ ValidDate(Year(fname), Month(fname), Day(fname))
     /\ slugify(rest) = rest

\* C15 as stated: a file YYYY-MM-DD-<rest>.<ext> without front-matter gives
\* a Document whose title is the name without the extension, whose date is
\* noon UTC of the day in the name, and whose slug is <rest>.
C15_DatedNameGivesRestAsSlug ==
  (call.fn = "loop" /\ call.file.front = "absent" /\ call.file.readable
     /\ IsDatedName(call.fname)) =>
    /\ call.out.ok
    /\ call.out.v.title = splitext(call.fname)
    /\ call.out.v.date =
         DateTime(Year(call.fname), Month(call.fname), Day(call.fname), 12, 0, 0, TRUE, 0)
    /\ call.out.v.slug = SubSeq(splitext(call.fname), 12, Len(splitext(call.fname)))

\* C16 as stated: a readable file whose front-matter is malformed or absent
\* does not make the loop raise; it gives a Document with no metadata, the
\* whole file as content, and title and slug from the file name.
C16_BadFrontmatterNeverFails ==
  (call.fn = "loop" /\ call.file.front \in {"absent", "malformed"} /\ call.file.readable) =>
    /\ call.out.ok
    /\ call.out.v.metadata = NoMetadata
    /\ call.out.v.content =
         (IF call.file.front = "malformed" THEN <<"malformed block">> ELSE <<>>)
           \o <<call.file.body>>
    /\ call.out.v.title = splitext(call.fname)
    /\ call.out.v.slug = slugify(splitext(call.fname))

Nodes(html) == {html[i] : i \in DOMAIN html}

\* C17 as stated: html and summary_html hold no tag outside the allow-list,
\* neither as a tag nor as the escaped text of the tag.
C17_DisallowedMarkupStripped ==
  call.fn = "render" =>
    \A node \in Nodes(call.out.html) \cup Nodes(call.out.summary_html) :
      node.kind = "text" \/ (node.kind \in {"open", "close"} /\ node.name \in ALLOWED_TAGS)

Chars(s) == {s[i] : i \in DOMAIN s}

\* C18: slugify of a slug is the slug itself, and a slug holds nothing but
\* lowercase ASCII letters, digits and hyphens.
C18_SlugifyIdempotentAndSafe ==
  call.fn = "slugify" =>
    /\ slugify(call.out) = call.out
    /\ Chars(call.out) \subseteq Lowercase \cup Digits \cup {"-"}

\* slugify has lowercased a letter, decomposed an accented one and turned
\* white space into a hyphen.
C18_Witness ==
  /\ call.fn = "slugify"
  /\ call.value = <<"B", "nbsp", "e_acute">>
  /\ call.out = <<"b", "-", "e">>

\* The keys of the image in their order, and the first of their values
\* that is not empty.
ImageKeys == <<"image", "img", "cover", "thumbnail">>

FirstNonEmpty(metadata) ==
  LET set == {i \in DOMAIN ImageKeys : Truthy(metadata[ImageKeys[i]])}
  IN IF set = {} THEN NoValue
     ELSE metadata[ImageKeys[CHOOSE i \in set : \A j \in set : i <= j]]

IsAbsolute(ref) == startswith(ref, HTTP) \/ startswith(ref, HTTPS) \/ startswith(ref, DATA)

\* A file name and nothing else: no folder, no scheme, no shorthand marker
\* and no white space before it.
IsBare(ref) ==
  /\ ref # <<>>
  /\ "/" \notin Chars(ref)
  /\ ref[1] \notin Whitespace \cup {":"}
  /\ ~IsAbsolute(ref)

\* C19: the image of a Document comes from the first non-empty value among
\* image, img, cover, thumbnail; an absolute URL or data URI is unchanged, a
\* reference starting with img/ or images/ is put behind the asset prefix,
\* and a bare file name into the bucket of the posts.
C19_ImageReference ==
  call.fn = "image" =>
    LET chosen == FirstNonEmpty(call.metadata)
        ref == chosen[1]
    IN chosen # NoValue =>
         /\ call.out # NoValue
         /\ IsAbsolute(ref) => call.out[1] = ref
         /\ (startswith(ref, IMG) \/ startswith(ref, IMAGES)) =>
              call.out[1] = call.prefix \o <<"/">> \o ref
         /\ IsBare(ref) => call.out[1] = call.prefix \o IMG_POSTS \o ref

\* image is missing and img holds img/c.p: with the prefix /assets the image
\* is /assets/img/c.p.
C19_Witness ==
  /\ call.fn = "image"
  /\ call.metadata.image = NoValue
  /\ call.metadata.img = Some(IMG \o FileRef)
  /\ call.metadata.cover # NoValue
  /\ call.prefix = <<"/", "a", "s", "s", "e", "t", "s">>
  /\ call.out = Some(<<"/", "a", "s", "s", "e", "t", "s", "/", "i", "m", "g", "/", "c", ".", "p">>)

\* When the read began, the cached fingerprint was the directory's and the
\* cached collection was not empty.
CacheWasGood(t) == entry[t].fp = _calc_fingerprint /\ entry[t].posts # <<>>

\* C20: a read comes back from _load without a reload exactly if the cache
\* was good when it began; in every other case it has replaced the cache by
\* a parse of the directory, also when the directory is unchanged and the
\* cached collection was empty.
C20_CachedIffGood ==
  \A t \in Threads :
    /\ pc[t] = "cached" => CacheWasGood(t) /\ _posts = entry[t].posts
    /\ pc[t] \in ReloadPcs \cup {"loaded"} => ~CacheWasGood(t)
    /\ pc[t] = "loaded" =>
         /\ _fingerprint = _calc_fingerprint
         /\ DocSet(_posts) = FreshDocs
         /\ Len(_posts) = Cardinality(FreshDocs)

\* A read of an unchanged, existing directory without posts has reloaded:
\* the fingerprint was the cached one, the cached collection empty.
C20_Witness ==
  /\ pc[1] = "loaded" /\ dirExists
  /\ entry[1].fp = _calc_fingerprint /\ entry[1].fp # EmptyString
  /\ entry[1].posts = <<>>

\* The name ends, in lower case, in an accepted extension.
IsAccepted(fname) ==
  \E ext \in POST_EXTS : endswith(lower(fname), ext)

\* A directory on the way to the file, or to the directory, is hidden.
UnderHidden(dirs) == \E i \in DOMAIN dirs : dirs[i][1] = "."

\* C21: the scanner yields exactly the files under the root with an
\* accepted extension that are not beneath a hidden directory, has been in
\* no hidden directory, and yields nothing for a missing root.
C21_ScannerYield ==
  call.fn = "_iter_post_files" =>
    /\ call.out.yielded =
         {path \in call.tree : IsAccepted(NameOf(path)) /\ ~UnderHidden(DirOf(path))}
    /\ \A dir \in call.out.visited : ~UnderHidden(dir)
    /\ ~call.exists => call.out.yielded = {}

\* A tree with an accepted file in upper case below a plain directory and
\* an accepted file below a hidden one: the first is yielded, the second
\* is not.
C21_Witness ==
  /\ call.fn = "_iter_post_files"
  /\ call.tree = {<<<<"d">>, <<"A", ".", "M", "K", "D", "N">>>>,
                  <<<<".", "h">>, <<"a", ".", "m", "d">>>>}
  /\ call.out.yielded = {<<<<"d">>, <<"A", ".", "M", "K", "D", "N">>>>}

\* What a fingerprint says of the directory it was computed from, and a
\* collection of the directory it was parsed from: the files and their sizes.
FilesOfFingerprint(fp) == {<<item[1], item[3]>> : item \in fp.items}

FilesOfPosts(list) == {<<d.source_path, Size(d.date)>> : d \in DocSet(list)}

\* C22 as stated: with every request done, a cached fingerprint that is the
\* directory's current one is paired with documents parsed from that state
\* of the directory, never from an older one with other files or sizes: a
\* change during a reload is seen by the next read.
C22_ChangeNeverLost ==
  ((\A t \in Threads : pc[t] = "idle") /\ _fingerprint = _calc_fingerprint)
    => FilesOfPosts(_posts) = FilesOfFingerprint(_fingerprint)

====
